---- MODULE Spec2Model ----
(***************************************************************************)
(* SNAK Scorecard API (main.py): the POST /submit-scorecard handler, the   *)
(* file validator and the two-message email gateway, run as asyncio tasks  *)
(* on one event loop.                                                      *)
(*                                                                         *)
(* Strings are TLA+ strings (Len, SubSeq and \o apply to them).  The bytes *)
(* of an upload are represented by their number; nothing in main.py looks  *)
(* at a byte's value.  An Optional[str] is <<>> for None and <<s>> for the *)
(* string s.  The static text of the two HTML templates and the timestamp  *)
(* are left out of a message's html; its interpolated fields are kept.     *)
(***************************************************************************)
EXTENDS Integers, Sequences, FiniteSets, TLC

VARIABLES
    req,           \* req[r]: the form fields and the upload of request r
    pc,            \* pc[r]: where the task of request r stands
    loop,          \* the task running on the event loop, 0 when it is idle
    file_content,  \* file_content[r]: number of buffered bytes, -1 before the read
    timer,         \* timer[r]: seconds left of asyncio.sleep, -1 when never armed
    calls,         \* calls[r]: the payloads handed to resend.Emails.send, in order
    outcomes,      \* outcomes[r]: "ok" or the provider's error text, per call
    printed,       \* printed[r]: the lines the gateway printed
    success,       \* success[r]: what the gateway returned ("unset" before)
    response       \* response[r]: the HTTP response, NoResponse before

vars == <<req, pc, loop, file_content, timer, calls, outcomes, printed, success, response>>

-----------------------------------------------------------------------------
(* Bounds *)

NumRequests == 2

-----------------------------------------------------------------------------
(* Configuration *)

MAX_FILE_SIZE == 16 * 1024 * 1024

ALLOWED_EXTENSIONS == {".xlsx", ".xls"}

FROM_EMAIL == "SNAK Scorecard <noreply@snak.vc>"

TO_EMAIL == "contact@snak.vc"

SLEEP_SECONDS == 1

-----------------------------------------------------------------------------
(* Values *)

None == <<>>

Some(s) == <<s>>

Truthy(opt) == opt # None /\ opt # Some("")

NoResponse == [status |-> 0]

HTTPException(status_code, detail) == [status |-> status_code, detail |-> detail]

JSONResponse(message, status_code) == [status |-> status_code, message |-> message]

-----------------------------------------------------------------------------
(* String functions of the Python library, as main.py uses them *)

CharAt(s, i) == SubSeq(s, i, i)

SetMin(S) == CHOOSE x \in S : \A y \in S : x <= y

SetMax(S) == CHOOSE x \in S : \A y \in S : x >= y

Whitespace == {" ", "\t", "\n", "\r", "\f"}

strip(s) ==
    LET keep == {i \in 1..Len(s) : CharAt(s, i) \notin Whitespace}
    IN  IF keep = {} THEN "" ELSE SubSeq(s, SetMin(keep), SetMax(keep))

UpperCase == "ABCDEFGHIJKLMNOPQRSTUVWXYZ"

LowerCase == "abcdefghijklmnopqrstuvwxyz"

LowerChar(c) ==
    IF \E i \in 1..26 : CharAt(UpperCase, i) = c
    THEN CharAt(LowerCase, CHOOSE i \in 1..26 : CharAt(UpperCase, i) = c)
    ELSE c

RECURSIVE lower(_)
lower(s) == IF s = "" THEN "" ELSE LowerChar(CharAt(s, 1)) \o lower(SubSeq(s, 2, Len(s)))

\* 1-based index of the last occurrence of c in p, 0 when there is none
rfind(p, c) ==
    LET at == {i \in 1..Len(p) : CharAt(p, i) = c}
    IN  IF at = {} THEN 0 ELSE SetMax(at)

\* os.path.splitext on POSIX: the extension starts at the last dot after the
\* last "/", unless only dots stand between that "/" and the dot
splitext(p) ==
    LET sepIndex == rfind(p, "/")
        dotIndex == rfind(p, ".")
    IN  IF /\ dotIndex > sepIndex
           /\ \E k \in (sepIndex + 1)..(dotIndex - 1) : CharAt(p, k) # "."
        THEN <<SubSeq(p, 1, dotIndex - 1), SubSeq(p, dotIndex, Len(p))>>
        ELSE <<p, "">>

\* len(base64.b64encode(b)) for len(b) = n
b64encode(n) == 4 * ((n + 2) \div 3)

\* f"{x / 1024 / 1024:.0f}" for a whole number of bytes x: round half to even
FormatMB0(x) ==
    LET q  == x \div 1048576
        r2 == 2 * (x % 1048576)
    IN  ToString(IF r2 > 1048576 \/ (r2 = 1048576 /\ q % 2 = 1) THEN q + 1 ELSE q)

-----------------------------------------------------------------------------
(* Requests *)

CompanyNames == {"", " ", " \t ", "Acme", " Acme "}

Emails == {"", "  ", "a@acme.com", " a@acme.com "}

Filenames ==
    {None, Some(""), Some("report.xlsx"), Some("report.XLSX"), Some("report.xls"),
     Some("report.Xls"), Some("data.csv"), Some(".xlsx"), Some("report"),
     Some("report.xlsx.csv"), Some("a.xls/b"), Some("..xls"), Some("report.xlsx ")}

FileSizes ==
    {0, 512000, MAX_FILE_SIZE - 1, MAX_FILE_SIZE, MAX_FILE_SIZE + 1, 17 * 1024 * 1024}

\* the length the multipart part declares for the file: -1 when it declares none
DeclaredLengths == {-1, 0, 512000}

UploadFile(filename, size, declared) ==
    [filename |-> filename, size |-> size, content_length |-> declared]

Submissions ==
    {[companyName |-> c, email |-> e, excelFile |-> UploadFile(f, n, d)] :
        c \in CompanyNames, e \in Emails, f \in Filenames, n \in FileSizes,
        d \in DeclaredLengths}

\* the requests of a concurrent run
ConcurrentSubmissions ==
    {[companyName |-> "Acme", email |-> "a@acme.com",
      excelFile |-> UploadFile(Some("report.xlsx"), 512000, -1)],
     [companyName |-> " ", email |-> "a@acme.com",
      excelFile |-> UploadFile(Some("report.xlsx"), 512000, -1)],
     [companyName |-> "Acme", email |-> "a@acme.com",
      excelFile |-> UploadFile(Some("data.csv"), 512000, -1)],
     [companyName |-> "Acme", email |-> "a@acme.com",
      excelFile |-> UploadFile(Some("report.xlsx"), MAX_FILE_SIZE + 1, 512000)]}

\* what resend.Emails.send raises with, when it raises
ProviderErrors == {"rate limit exceeded", "invalid api key"}

\* what UploadFile.read raises with, when it raises
ReadErrors == {"read of closed file"}

Requests == DOMAIN req

-----------------------------------------------------------------------------
(* validate_file and the handler's checks *)

FieldBlankNoStrip(s) == s = ""

FieldBlank(s) == strip(s) = ""

validate_file_case_sensitive(file) ==
    IF ~Truthy(file.filename)
    THEN Some("No file selected")
    ELSE IF splitext(file.filename[1])[2] \notin ALLOWED_EXTENSIONS
         THEN Some("Invalid file type. Please upload .xlsx or .xls files only")
         ELSE None

validate_file(file) ==
    IF ~Truthy(file.filename)
    THEN Some("No file selected")
    ELSE IF lower(splitext(file.filename[1])[2]) \notin ALLOWED_EXTENSIONS
         THEN Some("Invalid file type. Please upload .xlsx or .xls files only")
         ELSE None

TooLargeInclusive(n) == n >= MAX_FILE_SIZE

TooLargeInKiB(n) == n \div 1024 > MAX_FILE_SIZE

TooLarge(n) == n > MAX_FILE_SIZE

TooLargeDetail == "File too large. Maximum size is " \o FormatMB0(MAX_FILE_SIZE) \o "MB"

-----------------------------------------------------------------------------
(* The two payloads of send_email_with_attachment *)

OperatorMessage(company_name, user_email, n, filename) ==
    [from        |-> FROM_EMAIL,
     to          |-> <<TO_EMAIL>>,
     subject     |-> company_name \o " + SNAK Scorecard Request",
     html        |-> [company_name |-> company_name, user_email |-> user_email,
                      filename |-> filename, bytes |-> n],
     attachments |-> <<[filename |-> filename, content |-> b64encode(n)]>>]

ConfirmationMessageWithAttachment(company_name, user_email, n, filename) ==
    [from        |-> FROM_EMAIL,
     to          |-> <<user_email>>,
     subject     |-> "SNAK Scorecard Submission Confirmed",
     html        |-> [company_name |-> company_name, filename |-> filename, bytes |-> n],
     attachments |-> <<[filename |-> filename, content |-> b64encode(n)]>>]

ConfirmationMessage(company_name, user_email, n, filename) ==
    [from    |-> FROM_EMAIL,
     to      |-> <<user_email>>,
     subject |-> "SNAK Scorecard Submission Confirmed",
     html    |-> [company_name |-> company_name, filename |-> filename, bytes |-> n]]

-----------------------------------------------------------------------------
(* Initial states: one request with any submission, or NumRequests          *)
(* concurrent requests                                                      *)

InitVars ==
    /\ pc = [r \in Requests |-> "pending"]
    /\ loop = 0
    /\ file_content = [r \in Requests |-> -1]
    /\ timer = [r \in Requests |-> -1]
    /\ calls = [r \in Requests |-> <<>>]
    /\ outcomes = [r \in Requests |-> <<>>]
    /\ printed = [r \in Requests |-> <<>>]
    /\ success = [r \in Requests |-> "unset"]
    /\ response = [r \in Requests |-> NoResponse]

Init ==
    /\ \/ req \in [1..1 -> Submissions]
       \/ req \in [1..NumRequests -> ConcurrentSubmissions]
    /\ InitVars

-----------------------------------------------------------------------------
(* The task of one request.  A task runs on the event loop from one await  *)
(* to the next; no other task runs meanwhile.                              *)

\* the task ends with the response resp (a raise that leaves the handler, or
\* its return)
Finish(r, resp) ==
    /\ response' = [response EXCEPT ![r] = resp]
    /\ pc' = [pc EXCEPT ![r] = "done"]
    /\ loop' = 0

\* the event loop starts the handler
Start(r) ==
    /\ pc[r] = "pending"
    /\ loop = 0
    /\ loop' = r
    /\ pc' = [pc EXCEPT ![r] = "check_company"]
    /\ UNCHANGED <<req, file_content, timer, calls, outcomes, printed, success, response>>

CheckCompany(r) ==
    /\ pc[r] = "check_company"
    /\ loop = r
    /\ IF FieldBlank(req[r].companyName)
       THEN Finish(r, HTTPException(400, "Company name is required"))
       ELSE /\ pc' = [pc EXCEPT ![r] = "check_email"]
            /\ UNCHANGED <<loop, response>>
    /\ UNCHANGED <<req, file_content, timer, calls, outcomes, printed, success>>

CheckEmail(r) ==
    /\ pc[r] = "check_email"
    /\ loop = r
    /\ IF FieldBlank(req[r].email)
       THEN Finish(r, HTTPException(400, "Email address is required"))
       ELSE /\ pc' = [pc EXCEPT ![r] = "validate_file"]
            /\ UNCHANGED <<loop, response>>
    /\ UNCHANGED <<req, file_content, timer, calls, outcomes, printed, success>>

ValidateFile(r) ==
    /\ pc[r] = "validate_file"
    /\ loop = r
    /\ LET file_error == validate_file(req[r].excelFile)
       IN  IF Truthy(file_error)
           THEN Finish(r, HTTPException(400, file_error[1]))
           ELSE /\ pc' = [pc EXCEPT ![r] = "read"]
                /\ UNCHANGED <<loop, response>>
    /\ UNCHANGED <<req, file_content, timer, calls, outcomes, printed, success>>

\* await excelFile.read(): the task leaves the loop until the read is over
BeginRead(r) ==
    /\ pc[r] = "read"
    /\ loop = r
    /\ pc' = [pc EXCEPT ![r] = "reading"]
    /\ loop' = 0
    /\ UNCHANGED <<req, file_content, timer, calls, outcomes, printed, success, response>>

ReadReturns(r) ==
    /\ pc[r] = "reading"
    /\ loop = 0
    /\ loop' = r
    /\ file_content' = [file_content EXCEPT ![r] = req[r].excelFile.size]
    /\ pc' = [pc EXCEPT ![r] = "check_size"]
    /\ UNCHANGED <<req, timer, calls, outcomes, printed, success, response>>

\* the read raises: except Exception of the handler
ReadRaises(r) ==
    /\ pc[r] = "reading"
    /\ loop = 0
    /\ \E e \in ReadErrors : Finish(r, HTTPException(500, "Server error: " \o e))
    /\ UNCHANGED <<req, file_content, timer, calls, outcomes, printed, success>>

CheckSize(r) ==
    /\ pc[r] = "check_size"
    /\ loop = r
    /\ IF TooLarge(file_content[r])
       THEN Finish(r, HTTPException(400, TooLargeDetail))
       ELSE /\ pc' = [pc EXCEPT ![r] = "send_snak"]
            /\ UNCHANGED <<loop, response>>
    /\ UNCHANGED <<req, file_content, timer, calls, outcomes, printed, success>>

-----------------------------------------------------------------------------
(* send_email_with_attachment, called with the stripped fields *)

\* except Exception as e: print and return False
GatewayExceptReturnsTrue(r, e) ==
    /\ printed' = [printed EXCEPT ![r] = Append(@, "Error sending emails: " \o e)]
    /\ success' = [success EXCEPT ![r] = "true"]
    /\ pc' = [pc EXCEPT ![r] = "return"]
    /\ UNCHANGED <<loop, response>>

GatewayExceptReraises(r, e) ==
    /\ printed' = [printed EXCEPT ![r] = Append(@, "Error sending emails: " \o e)]
    /\ Finish(r, HTTPException(500, "Server error: " \o e))
    /\ UNCHANGED success

GatewayExcept(r, e) ==
    /\ printed' = [printed EXCEPT ![r] = Append(@, "Error sending emails: " \o e)]
    /\ success' = [success EXCEPT ![r] = "false"]
    /\ pc' = [pc EXCEPT ![r] = "return"]
    /\ UNCHANGED <<loop, response>>

\* EMAIL 1: resend.Emails.send to the SNAK team, with the attachment
SendSnak(r) ==
    /\ pc[r] = "send_snak"
    /\ loop = r
    /\ calls' = [calls EXCEPT ![r] =
                    Append(@, OperatorMessage(strip(req[r].companyName), strip(req[r].email),
                                              file_content[r], req[r].excelFile.filename[1]))]
    /\ \E o \in {"ok"} \cup ProviderErrors :
          /\ outcomes' = [outcomes EXCEPT ![r] = Append(@, o)]
          /\ IF o = "ok"
             THEN /\ pc' = [pc EXCEPT ![r] = "sleep"]
                  /\ UNCHANGED <<loop, printed, success, response>>
             ELSE GatewayExcept(r, o)
    /\ UNCHANGED <<req, file_content, timer>>

SleepBlocking(r) ==
    /\ pc[r] = "sleep"
    /\ loop = r
    /\ timer' = [timer EXCEPT ![r] = SLEEP_SECONDS]
    /\ pc' = [pc EXCEPT ![r] = "sleeping"]
    /\ UNCHANGED <<req, loop, file_content, calls, outcomes, printed, success, response>>

SleepSkipped(r) ==
    /\ pc[r] = "sleep"
    /\ loop = r
    /\ pc' = [pc EXCEPT ![r] = "send_user"]
    /\ UNCHANGED <<req, loop, timer, file_content, calls, outcomes, printed, success, response>>

\* await asyncio.sleep(1): the task arms a timer and leaves the loop
Sleep(r) ==
    /\ pc[r] = "sleep"
    /\ loop = r
    /\ timer' = [timer EXCEPT ![r] = SLEEP_SECONDS]
    /\ pc' = [pc EXCEPT ![r] = "sleeping"]
    /\ loop' = 0
    /\ UNCHANGED <<req, file_content, calls, outcomes, printed, success, response>>

\* a second of the sleep goes by
Tick(r) ==
    /\ pc[r] = "sleeping"
    /\ timer[r] > 0
    /\ timer' = [timer EXCEPT ![r] = @ - 1]
    /\ UNCHANGED <<req, pc, loop, file_content, calls, outcomes, printed, success, response>>

\* the timer is due and the loop is free: the task goes on
Wake(r) ==
    /\ pc[r] = "sleeping"
    /\ timer[r] = 0
    /\ loop = 0
    /\ loop' = r
    /\ pc' = [pc EXCEPT ![r] = "send_user"]
    /\ UNCHANGED <<req, file_content, timer, calls, outcomes, printed, success, response>>

\* EMAIL 2: resend.Emails.send to the submitter, then return True
SendUser(r) ==
    /\ pc[r] = "send_user"
    /\ loop = r
    /\ calls' = [calls EXCEPT ![r] =
                    Append(@, ConfirmationMessage(strip(req[r].companyName), strip(req[r].email),
                                                  file_content[r], req[r].excelFile.filename[1]))]
    /\ \E o \in {"ok"} \cup ProviderErrors :
          /\ outcomes' = [outcomes EXCEPT ![r] = Append(@, o)]
          /\ IF o = "ok"
             THEN /\ success' = [success EXCEPT ![r] = "true"]
                  /\ pc' = [pc EXCEPT ![r] = "return"]
                  /\ UNCHANGED <<loop, printed, response>>
             ELSE GatewayExcept(r, o)
    /\ UNCHANGED <<req, file_content, timer>>

\* if success: 200, else: 500
Respond(r) ==
    /\ pc[r] = "return"
    /\ loop = r
    /\ IF success[r] = "true"
       THEN Finish(r, JSONResponse("Scorecard request submitted successfully! Check your email for confirmation.", 200))
       ELSE Finish(r, HTTPException(500, "Failed to send email. Please try again later."))
    /\ UNCHANGED <<req, file_content, timer, calls, outcomes, printed, success>>

-----------------------------------------------------------------------------

Next ==
    \/ \E r \in Requests : Start(r)
    \/ \E r \in Requests : CheckCompany(r)
    \/ \E r \in Requests : CheckEmail(r)
    \/ \E r \in Requests : ValidateFile(r)
    \/ \E r \in Requests : BeginRead(r)
    \/ \E r \in Requests : ReadReturns(r)
    \/ \E r \in Requests : ReadRaises(r)
    \/ \E r \in Requests : CheckSize(r)
    \/ \E r \in Requests : SendSnak(r)
    \/ \E r \in Requests : Sleep(r)
    \/ \E r \in Requests : Tick(r)
    \/ \E r \in Requests : Wake(r)
    \/ \E r \in Requests : SendUser(r)
    \/ \E r \in Requests : Respond(r)

Spec == Init /\ [][Next]_vars

-----------------------------------------------------------------------------
(* Vocabulary of the properties *)

\* any step of the task of request r
TaskStep(r) ==
    \/ Start(r) \/ CheckCompany(r) \/ CheckEmail(r) \/ ValidateFile(r)
    \/ BeginRead(r) \/ ReadReturns(r) \/ ReadRaises(r) \/ CheckSize(r)
    \/ SendSnak(r) \/ Sleep(r) \/ Tick(r) \/ Wake(r) \/ SendUser(r) \/ Respond(r)

Done(r) == pc[r] = "done"

IsBlank(s) == \A i \in 1..Len(s) : CharAt(s, i) \in Whitespace

Contains(s, t) == \E i \in 1..(Len(s) - Len(t) + 1) : SubSeq(s, i, i + Len(t) - 1) = t

FieldsGiven(q) == ~IsBlank(q.companyName) /\ ~IsBlank(q.email)

HasFilename(q) == q.excelFile.filename # None /\ q.excelFile.filename # Some("")

\* the lowercased extension of the upload's name, "" when it has no name
Extension(q) ==
    IF q.excelFile.filename = None THEN "" ELSE lower(splitext(q.excelFile.filename[1])[2])

ExtensionAllowed(q) == Extension(q) \in {".xlsx", ".xls"}

HasAttachment(m) == "attachments" \in DOMAIN m

Failed(r) == \E i \in 1..Len(outcomes[r]) : outcomes[r][i] # "ok"

EmptyCompany == HTTPException(400, "Company name is required")

EmptyEmail == HTTPException(400, "Email address is required")

MissingFile == HTTPException(400, "No file selected")

UnsupportedType ==
    HTTPException(400, "Invalid file type. Please upload .xlsx or .xls files only")

FileTooLarge == HTTPException(400, "File too large. Maximum size is 16MB")

DeliveryFailure == HTTPException(500, "Failed to send email. Please try again later.")

-----------------------------------------------------------------------------
\* C1: when the operator send succeeds and the confirmation send then fails,
\* the failure is swallowed and the handler answers HTTP 200.
C1_ConfirmationFailureSwallowed ==
    \A r \in Requests :
        (/\ Done(r)
         /\ Len(outcomes[r]) = 2
         /\ outcomes[r][1] = "ok"
         /\ outcomes[r][2] # "ok") => response[r].status = 200

\* C2: no call to the email provider has been made for a request unless the
\* request passed every validation (both fields non-blank, a file name with
\* an allowed extension, at most MAX_FILE_SIZE buffered bytes); a request
\* answered with HTTP 400 has made no call.
C2_NoSendUnlessValidated ==
    \A r \in Requests :
        /\ calls[r] # <<>> =>
              /\ FieldsGiven(req[r])
              /\ HasFilename(req[r])
              /\ ExtensionAllowed(req[r])
              /\ file_content[r] = req[r].excelFile.size
              /\ file_content[r] <= MAX_FILE_SIZE
        /\ response[r].status = 400 => calls[r] = <<>>

C2_Witness ==
    \E r \in Requests :
        /\ calls[r] # <<>>
        /\ file_content[r] = MAX_FILE_SIZE
        /\ req[r].excelFile.filename = Some("report.XLSX")

\* C3: when the operator send (the first call) fails, the handler answers
\* HTTP 500 and never HTTP 200.
C3_OperatorFailureIs500 ==
    \A r \in Requests :
        (Len(outcomes[r]) >= 1 /\ outcomes[r][1] # "ok") =>
            /\ response[r].status # 200
            /\ Done(r) => response[r].status = 500
            /\ Len(calls[r]) = 1

C3_Witness ==
    \E r \in Requests :
        /\ Done(r)
        /\ outcomes[r] = <<"rate limit exceeded">>
        /\ response[r].status = 500

\* C4: a valid submission whose two sends both succeed is answered HTTP 200
\* with a message containing "successfully", after exactly two messages: the
\* operator message to the configured address with the file attached under
\* its original name, then the confirmation to the submitter's trimmed
\* address without attachment.
C4_HappyPath ==
    \A r \in Requests :
        (/\ Done(r)
         /\ FieldsGiven(req[r]) /\ HasFilename(req[r]) /\ ExtensionAllowed(req[r])
         /\ req[r].excelFile.size <= MAX_FILE_SIZE
         /\ outcomes[r] = <<"ok", "ok">>) =>
            /\ response[r].status = 200
            /\ Contains(response[r].message, "successfully")
            /\ Len(calls[r]) = 2
            /\ calls[r][1].to = <<TO_EMAIL>>
            /\ Len(calls[r][1].attachments) = 1
            /\ calls[r][1].attachments[1].filename = req[r].excelFile.filename[1]
            /\ calls[r][2].to = <<strip(req[r].email)>>
            /\ ~HasAttachment(calls[r][2])

C4_Witness ==
    \E r \in Requests :
        /\ Done(r)
        /\ outcomes[r] = <<"ok", "ok">>
        /\ response[r].status = 200
        /\ req[r].email = " a@acme.com "
        /\ calls[r][2].to = <<"a@acme.com">>

\* C5: within a request the operator send is made at most once and first,
\* the confirmation send at most once and only after the operator send
\* returned and the pause elapsed, and no send follows a failed send.
C5_SendOrder ==
    \A r \in Requests :
        /\ Len(calls[r]) <= 2
        /\ Len(outcomes[r]) = Len(calls[r])
        /\ \A i \in 1..Len(calls[r]) :
              /\ HasAttachment(calls[r][i]) <=> i = 1
              /\ i < Len(calls[r]) => outcomes[r][i] = "ok"
        /\ Len(calls[r]) = 2 => timer[r] = 0
        /\ pc[r] = "send_user" => (Len(calls[r]) = 1 /\ timer[r] = 0)

C5_Witness ==
    \E r \in Requests :
        /\ Len(calls[r]) = 2
        /\ ~HasAttachment(calls[r][2])
        /\ timer[r] = 0

\* C6: a request whose companyName or email is empty or only whitespace is
\* answered HTTP 400, "Company name is required" when companyName is blank
\* and "Email address is required" when only email is, whatever the file.
C6_EmptyField ==
    \A r \in Requests :
        Done(r) =>
            /\ IsBlank(req[r].companyName) => response[r] = EmptyCompany
            /\ (~IsBlank(req[r].companyName) /\ IsBlank(req[r].email)) =>
                  response[r] = EmptyEmail

C6_Witness ==
    \E r \in Requests :
        /\ Done(r)
        /\ req[r].companyName = " Acme "
        /\ req[r].email = "  "
        /\ req[r].excelFile.filename = Some("data.csv")
        /\ req[r].excelFile.size > MAX_FILE_SIZE
        /\ response[r] = EmptyEmail

\* C7 as stated, taken on the requests whose two fields are given and whose
\* upload carries a file name: every file name with an extension outside
\* {.xlsx, .xls} is rejected with UnsupportedType (HTTP 400, "Invalid file
\* type. Please upload .xlsx or .xls files only"), before any send and
\* before the bytes are read.
C7_Original ==
    \A r \in Requests :
        (/\ Done(r)
         /\ FieldsGiven(req[r])
         /\ req[r].excelFile.filename # None
         /\ ~ExtensionAllowed(req[r])) =>
            /\ response[r] = UnsupportedType
            /\ calls[r] = <<>>
            /\ file_content[r] = -1

\* C7 amended: a request whose file name has an extension outside {.xlsx,
\* .xls} (compared in lower case) is answered HTTP 400 before any send and
\* before the bytes are read; the detail is "Invalid file type. Please
\* upload .xlsx or .xls files only" when both fields are non-blank and the
\* file name is non-empty, "No file selected" when both fields are
\* non-blank and the file name is empty or absent, and the blank field's
\* message otherwise; no name with an allowed extension, in any letter
\* case, is rejected with UnsupportedType.
C7_UnsupportedType ==
    \A r \in Requests :
        Done(r) =>
            /\ ~ExtensionAllowed(req[r]) =>
                  /\ response[r].status = 400
                  /\ calls[r] = <<>>
                  /\ file_content[r] = -1
            /\ (FieldsGiven(req[r]) /\ HasFilename(req[r]) /\ ~ExtensionAllowed(req[r])) =>
                  response[r] = UnsupportedType
            /\ (FieldsGiven(req[r]) /\ ~HasFilename(req[r])) => response[r] = MissingFile
            /\ ~FieldsGiven(req[r]) => response[r] \in {EmptyCompany, EmptyEmail}
            /\ response[r] = UnsupportedType => ~ExtensionAllowed(req[r])

C7_Witness ==
    \E r \in Requests :
        /\ Done(r)
        /\ req[r].excelFile.filename = Some("data.csv")
        /\ FieldsGiven(req[r])
        /\ response[r] = UnsupportedType
        /\ file_content[r] = -1

\* C8: a payload whose buffered length exceeds 16 MiB is rejected with HTTP
\* 400 naming the 16MB limit, whatever length was declared and before any
\* send; a payload of exactly 16 MiB is not rejected as too large; the
\* rejection is decided on the buffered bytes.
C8_TooLarge ==
    \A r \in Requests :
        /\ (Done(r) /\ file_content[r] > 16777216) =>
              (response[r] = FileTooLarge /\ calls[r] = <<>>)
        /\ response[r] = FileTooLarge =>
              (file_content[r] = req[r].excelFile.size /\ file_content[r] > 16777216)
        /\ (pc[r] = "check_size" /\ file_content[r] > 16777216) => calls[r] = <<>>

C8_Witness ==
    \E r \in Requests :
        /\ Done(r)
        /\ file_content[r] = 16777217
        /\ req[r].excelFile.content_length = 512000
        /\ response[r] = FileTooLarge

\* C9: a failure of the provider is caught in the gateway, which returns a
\* failure value, and is answered with one fixed HTTP 500 detail: two
\* requests that differ only in the provider's error text get the same
\* response.
C9_GenericFailure ==
    /\ \A r \in Requests :
          Failed(r) =>
              /\ success[r] = "false"
              /\ response[r] \in {NoResponse, DeliveryFailure}
              /\ Done(r) => response[r] = DeliveryFailure
    /\ \A r1, r2 \in Requests :
          (/\ Done(r1) /\ Done(r2)
           /\ req[r1] = req[r2]
           /\ Failed(r1) /\ Failed(r2)
           /\ Len(outcomes[r1]) = Len(outcomes[r2])) => response[r1] = response[r2]

C9_Witness ==
    \E r1, r2 \in Requests :
        /\ Done(r1) /\ Done(r2)
        /\ req[r1] = req[r2]
        /\ outcomes[r1] = <<"rate limit exceeded">>
        /\ outcomes[r2] = <<"invalid api key">>
        /\ response[r1] = response[r2]
        /\ response[r1].status = 500

\* C10: a request in its pause does not hold the event loop: any other
\* unfinished request can take a step unless a third task is running, and
\* two requests with the same submission, the same read result and the same
\* send outcomes get the same response.
C10_PauseDoesNotStall ==
    /\ \A r \in Requests : pc[r] = "sleeping" => loop # r
    /\ \A r1, r2 \in Requests :
          (/\ r1 # r2
           /\ pc[r1] = "sleeping"
           /\ ~Done(r2)
           /\ loop \in {0, r1, r2}) => ENABLED TaskStep(r2)
    /\ \A r1, r2 \in Requests :
          (/\ Done(r1) /\ Done(r2)
           /\ req[r1] = req[r2]
           /\ file_content[r1] = file_content[r2]
           /\ outcomes[r1] = outcomes[r2]) => response[r1] = response[r2]

C10_Witness ==
    \E r1, r2 \in Requests :
        /\ r1 # r2
        /\ pc[r1] = "sleeping"
        /\ timer[r1] = SLEEP_SECONDS
        /\ loop = r2
        /\ pc[r2] = "send_snak"

====
